---- MODULE Spec2Model ----
(***************************************************************************)
(* Streaming decoder of go-openrouter: the driver goroutine started by     *)
(* CreateChatCompletionStream / CreateCompletionStream, the consumer       *)
(* operations Recv and Close, and cancellation of the request context.     *)
(*                                                                         *)
(* Bytes are modelled as tokens: a line is a sequence of tokens, each      *)
(* token standing for the byte string of its name, and concatenation of    *)
(* tokens for concatenation of bytes.  strings.HasPrefix, HasSuffix and    *)
(* bytes.TrimPrefix are computed on token sequences.                       *)
(***************************************************************************)
EXTENDS Integers, Sequences, FiniteSets, TLC

\* ------------------------------------------------------------------ bounds
MaxLines == 3      \* newline-terminated lines in a response body
MaxRecv  == 3      \* Recv calls made by the consumer
MaxClose == 2      \* Close calls made by the consumer
MaxFairLines == 2  \* lines in a body, in the specifications with fairness
MaxParts == 2      \* parts in a Content value, elements in a JSON array
MaxExtLines == 2   \* lines in a body drawn from the extended line set

\* ------------------------------------------------------------- wire format
NL == "\n"

DataLine1  == <<"data:", " ", "{1}", NL>>              \* data: {..}\n
DataLine2  == <<"{2}", NL>>                            \* a JSON object with no data: prefix
BadLine    == <<"data:", " ", "{x", NL>>               \* payload is not valid JSON
DoneLine   == <<"data:", " ", "[DONE]", NL>>           \* data: [DONE]\n
ProcLine   == <<": ", "OPENROUTER PROCESSING", NL>>    \* : OPENROUTER PROCESSING\n
PingLine   == <<": ", "ping", NL>>                     \* : ping\n
BlankLine  == <<NL>>

LineSet == {DataLine1, DataLine2, BadLine, DoneLine, ProcLine, PingLine, BlankLine}

\* bytes that may precede end-of-source with no newline after them
TailLine == <<"data:", " ", "{2}">>

BoundedSeq(S, n) == UNION {[1..k -> S] : k \in 0..n}

\* ------------------------------------------------------- string functions
\* strings.HasPrefix(string(line), p)
HasPrefix(s, p) == Len(s) >= Len(p) /\ SubSeq(s, 1, Len(p)) = p

\* strings.HasSuffix(string(line), p)
HasSuffix(s, p) == Len(s) >= Len(p) /\ SubSeq(s, Len(s) - Len(p) + 1, Len(s)) = p

\* bytes.TrimPrefix(line, p)
TrimPrefix(s, p) == IF HasPrefix(s, p) THEN SubSeq(s, Len(p) + 1, Len(s)) ELSE s

\* JSON whitespace, which encoding/json skips around a value
IsSpace(t) == t \in {" ", NL}

RECURSIVE TrimSpace(_)
TrimSpace(s) ==
    IF s = <<>> THEN s
    ELSE IF IsSpace(Head(s)) THEN TrimSpace(Tail(s))
    ELSE IF IsSpace(s[Len(s)]) THEN TrimSpace(SubSeq(s, 1, Len(s) - 1))
    ELSE s

\* the chunk a JSON object token decodes to (0: not a JSON value)
ChunkOf(t) == CASE t = "{1}" -> 1 [] t = "{2}" -> 2 [] OTHER -> 0

\* json.Unmarshal(line, &chunk): succeeds iff the bytes are one JSON object
\* surrounded by optional whitespace
Unmarshal(bytes) ==
    LET v == TrimSpace(bytes)
    IN  IF Len(v) = 1 /\ ChunkOf(v[1]) # 0
        THEN [ok |-> TRUE, chunk |-> ChunkOf(v[1])]
        ELSE [ok |-> FALSE, chunk |-> 0]

\* ------------------------------------------------- driver line processing
\* chat.go:613  strings.HasSuffix(string(line), "[DONE]\n")
IsDone(line) == HasSuffix(line, <<"[DONE]", NL>>)

\* no line is skipped
IsIgnoredNever(line) == FALSE

\* chat.go:617  HasPrefix(line, ": OPENROUTER PROCESSING") || line == "\n"
IsIgnored(line) == HasPrefix(line, <<": ", "OPENROUTER PROCESSING">>) \/ line = <<NL>>

\* the data: prefix is left on the line
PayloadNoTrim(line) == line

\* chat.go:621  bytes.TrimPrefix(line, []byte("data:"))
Payload(line) == TrimPrefix(line, <<"data:">>)

\* --------------------------------------------------------------- the state
VARIABLES
    body,        \* the newline-terminated lines of the response body
    pos,         \* lines the bufio.Reader has handed to the driver
    dpc,         \* driver goroutine: select, read, send, deferBody, deferClose, exited
    chunk,       \* the decoded chunk the driver is sending
    rd,          \* what the ReadBytes call that failed returned: [line, err]
    exit,        \* the return statement the driver left its loop by
    streamClosed,\* close(stream) has run
    doneClosed,  \* close(s.done) has run
    ctxDone,     \* the request context is cancelled
    bodyCloses,  \* invocations of resp.Body.Close()
    panicked,    \* the process panicked
    rpc,         \* consumer in Recv: idle, select
    cpc,         \* consumer in Close: idle, body
    closeCalls,  \* Close calls started
    closeReturns,\* Close calls returned
    recvAfterClose,  \* the pending Recv was called after a Close returned
    closedEarly, \* the first Close was called before any chunk was received
    results      \* outcomes of the Recv calls so far

driverVars == <<pos, dpc, chunk, rd, exit, streamClosed>>
recvVars   == <<rpc, recvAfterClose, results>>
closeVars  == <<cpc, closeCalls, closeReturns, closedEarly>>

streamVars == <<body, driverVars, doneClosed, ctxDone, bodyCloses, panicked,
                recvVars, closeVars>>

\* Content.MarshalJSON / Content.UnmarshalJSON
VARIABLE codec   \* the values a caller of the codec holds, a record of:
cv    == codec.cv      \* a Content value: [Text, Multi]
cdata == codec.cdata   \* a byte buffer holding a JSON document
csrc  == codec.csrc    \* the Content value cdata was marshalled from, if it was
cop   == codec.cop     \* the last codec operation: none, marshal, input, set, unmarshal
cpre  == codec.cpre    \* the receiver before the UnmarshalJSON just made, if one was
cerr  == codec.cerr    \* the error that operation returned

codecVars == <<codec>>

\* CreateChatCompletion, CreateCompletion and their streaming counterparts
VARIABLE create  \* a call of one of the four methods, a record of:
api        == create.api         \* the method called: none, chat, completion, chatStream, completionStream
reqStream  == create.reqStream   \* request.Stream once the method's first statements ran
kpc        == create.kpc         \* the call: idle, build, do, status, returned
httpCalls  == create.httpCalls   \* calls of c.config.HTTPClient.Do
status     == create.status      \* resp.StatusCode (0: no response)
respCloses == create.respCloses  \* calls of resp.Body.Close made by the creating call
respReads  == create.respReads   \* reads of resp.Body made by the creating call
started    == create.started     \* the driver goroutine was started
ret        == create.ret         \* what the call returned: [stream, err]

createVars == <<create>>

vars == <<streamVars, codecVars, createVars>>

Bodies == BoundedSeq(LineSet, MaxLines)

\* How a body can end after its last newline: end-of-source at once,
\* end-of-source after bytes with no newline, or a read error
Endings == {[line |-> <<>>, err |-> "EOF"], [line |-> TailLine, err |-> "EOF"],
            [line |-> <<>>, err |-> "err"]}

NoRead == [line |-> <<>>, err |-> "nil"]

\* no Content value is being encoded or decoded
NoSrc == [Text |-> "none", Multi |-> <<>>]
NoDoc == [k |-> "none"]

CodecIdle ==
    codec = [cv |-> [Text |-> "", Multi |-> <<>>], cdata |-> NoDoc, csrc |-> NoSrc,
             cop |-> "none", cpre |-> NoSrc, cerr |-> "nil"]

\* http.StatusOK, http.StatusBadRequest
StatusOK == 200
StatusBadRequest == 400

\* CreateChatCompletionStream has returned (stream, nil) on a 200 response
StreamCreated ==
    create = [api |-> "chatStream", reqStream |-> TRUE, kpc |-> "returned",
              httpCalls |-> 1, status |-> StatusOK, respCloses |-> 0,
              respReads |-> 0, started |-> TRUE,
              ret |-> [stream |-> "stream", err |-> "nil"]]

\* CreateChatCompletionStream returned a stream: channels made, driver started
Init ==
    /\ CodecIdle
    /\ StreamCreated
    /\ body \in Bodies
    /\ pos = 0
    /\ dpc = "select"
    /\ chunk = 0
    /\ rd = NoRead
    /\ exit = "none"
    /\ streamClosed = FALSE
    /\ doneClosed = FALSE
    /\ ctxDone = FALSE
    /\ bodyCloses = 0
    /\ panicked = FALSE
    /\ rpc = "idle"
    /\ cpc = "idle"
    /\ closeCalls = 0
    /\ closeReturns = 0
    /\ recvAfterClose = FALSE
    /\ closedEarly = FALSE
    /\ results = <<>>

\* ------------------------------------------------------------- the reader
\* What reader.ReadBytes('\n') can return after p lines of body b: the next
\* line with a nil error; past the last newline, the bytes left together
\* with io.EOF or the transport's read error.  Once the body is closed or
\* the request context is cancelled (failing) the transport fails the read,
\* unless the line is already in the bufio.Reader's buffer.
ReadBytes(b, p, failing) ==
    (IF p < Len(b) THEN {[line |-> b[p + 1], err |-> "nil"]} ELSE Endings)
    \cup (IF failing THEN {[line |-> <<>>, err |-> "err"]} ELSE {})

\* a line that fails to decode is skipped and the loop goes on
ProcessSkipBad(line) ==
    IF IsDone(line) THEN [pc |-> "deferBody", chunk |-> 0, exit |-> "terminator"]
    ELSE IF IsIgnored(line) THEN [pc |-> "select", chunk |-> 0, exit |-> "none"]
    ELSE LET u == Unmarshal(Payload(line))
         IN  IF ~u.ok THEN [pc |-> "select", chunk |-> 0, exit |-> "none"]
             ELSE [pc |-> "send", chunk |-> u.chunk, exit |-> "none"]

\* a terminator line is skipped like a comment and the loop goes on
ProcessPastDone(line) ==
    IF IsDone(line) THEN [pc |-> "select", chunk |-> 0, exit |-> "none"]
    ELSE IF IsIgnored(line) THEN [pc |-> "select", chunk |-> 0, exit |-> "none"]
    ELSE LET u == Unmarshal(Payload(line))
         IN  IF ~u.ok THEN [pc |-> "deferBody", chunk |-> 0, exit |-> "decode"]
             ELSE [pc |-> "send", chunk |-> u.chunk, exit |-> "none"]

\* chat.go:612-630: what the driver does with a line read without error
Process(line) ==
    IF IsDone(line) THEN [pc |-> "deferBody", chunk |-> 0, exit |-> "terminator"]
    ELSE IF IsIgnored(line) THEN [pc |-> "select", chunk |-> 0, exit |-> "none"]
    ELSE LET u == Unmarshal(Payload(line))
         IN  IF ~u.ok THEN [pc |-> "deferBody", chunk |-> 0, exit |-> "decode"]
             ELSE [pc |-> "send", chunk |-> u.chunk, exit |-> "none"]

\* ------------------------------------------------------ driver goroutine
\* a driver that closes the delivery channel as soon as it sees done, ahead
\* of its deferred close
DriverSelectDoneCloses ==
    /\ ~panicked /\ dpc = "select" /\ doneClosed
    /\ dpc' = "deferBody"
    /\ exit' = "done"
    /\ streamClosed' = TRUE
    /\ UNCHANGED <<codecVars, createVars>>
    /\ UNCHANGED <<body, pos, chunk, rd, doneClosed, ctxDone,
                   bodyCloses, panicked, recvVars, closeVars>>

\* select: case <-done: return
DriverSelectDone ==
    /\ ~panicked /\ dpc = "select" /\ doneClosed
    /\ dpc' = "deferBody"
    /\ exit' = "done"
    /\ UNCHANGED <<codecVars, createVars>>
    /\ UNCHANGED <<body, pos, chunk, rd, streamClosed, doneClosed, ctxDone,
                   bodyCloses, panicked, recvVars, closeVars>>

\* select: case <-ctx.Done(): return
DriverSelectCtx ==
    /\ ~panicked /\ dpc = "select" /\ ctxDone
    /\ dpc' = "deferBody"
    /\ exit' = "ctx"
    /\ UNCHANGED <<codecVars, createVars>>
    /\ UNCHANGED <<body, pos, chunk, rd, streamClosed, doneClosed, ctxDone,
                   bodyCloses, panicked, recvVars, closeVars>>

\* a driver whose send does not wait for a receiver: it goes on to the next
\* read with the chunk still undelivered
DriverSelectDefaultAhead ==
    /\ ~panicked /\ dpc \in {"select", "send"} /\ ~doneClosed /\ ~ctxDone
    /\ dpc' = "read"
    /\ UNCHANGED <<codecVars, createVars>>
    /\ UNCHANGED <<body, pos, chunk, rd, exit, streamClosed, doneClosed, ctxDone,
                   bodyCloses, panicked, recvVars, closeVars>>

\* select: default, taken only when neither channel is ready
DriverSelectDefault ==
    /\ ~panicked /\ dpc = "select" /\ ~doneClosed /\ ~ctxDone
    /\ dpc' = "read"
    /\ UNCHANGED <<codecVars, createVars>>
    /\ UNCHANGED <<body, pos, chunk, rd, exit, streamClosed, doneClosed, ctxDone,
                   bodyCloses, panicked, recvVars, closeVars>>

\* ReadBytes returned an error (io.EOF or another one): return
DriverReadFail ==
    /\ ~panicked /\ dpc = "read"
    /\ \E r \in ReadBytes(body, pos, bodyCloses > 0 \/ ctxDone) :
         /\ r.err # "nil"
         /\ rd' = r
    /\ dpc' = "deferBody"
    /\ exit' = "read"
    /\ UNCHANGED <<codecVars, createVars>>
    /\ UNCHANGED <<body, pos, chunk, streamClosed, doneClosed, ctxDone,
                   bodyCloses, panicked, recvVars, closeVars>>

\* ReadBytes returned a line: classify it, decode it
DriverReadLine ==
    /\ ~panicked /\ dpc = "read"
    /\ \E r \in ReadBytes(body, pos, bodyCloses > 0 \/ ctxDone) :
         /\ r.err = "nil"
         /\ pos' = pos + 1
         /\ dpc' = Process(r.line).pc
         /\ chunk' = Process(r.line).chunk
         /\ exit' = Process(r.line).exit
    /\ UNCHANGED <<codecVars, createVars>>
    /\ UNCHANGED <<body, rd, streamClosed, doneClosed, ctxDone, bodyCloses,
                   panicked, recvVars, closeVars>>

\* a driver whose exit does not release the body
DriverDeferBodyMissing ==
    /\ ~panicked /\ dpc = "deferBody"
    /\ dpc' = "deferClose"
    /\ UNCHANGED <<codecVars, createVars>>
    /\ UNCHANGED <<body, pos, chunk, rd, exit, streamClosed, doneClosed, ctxDone,
                   bodyCloses, panicked, recvVars, closeVars>>

\* defer resp.Body.Close()
DriverDeferBody ==
    /\ ~panicked /\ dpc = "deferBody"
    /\ bodyCloses' = bodyCloses + 1
    /\ dpc' = "deferClose"
    /\ UNCHANGED <<codecVars, createVars>>
    /\ UNCHANGED <<body, pos, chunk, rd, exit, streamClosed, doneClosed, ctxDone,
                   panicked, recvVars, closeVars>>

\* a driver that exits without closing the delivery channel
DriverDeferCloseMissing ==
    /\ ~panicked /\ dpc = "deferClose"
    /\ dpc' = "exited"
    /\ UNCHANGED <<codecVars, createVars>>
    /\ UNCHANGED <<body, pos, chunk, rd, exit, streamClosed, doneClosed, ctxDone,
                   bodyCloses, panicked, recvVars, closeVars>>

\* defer close(stream)
DriverDeferClose ==
    /\ ~panicked /\ dpc = "deferClose"
    /\ streamClosed' = TRUE
    /\ dpc' = "exited"
    /\ UNCHANGED <<codecVars, createVars>>
    /\ UNCHANGED <<body, pos, chunk, rd, exit, doneClosed, ctxDone, bodyCloses,
                   panicked, recvVars, closeVars>>

\* ----------------------------------------------------------------- Recv
\* what Recv returns: (chunk, nil) or (zero value, io.EOF)
Result(c, e) == [chunk |-> c, err |-> e]

\* the consumer calls Recv and reaches the select
RecvCall ==
    /\ ~panicked /\ rpc = "idle" /\ Len(results) < MaxRecv
    /\ rpc' = "select"
    /\ recvAfterClose' = (closeReturns > 0)
    /\ UNCHANGED <<codecVars, createVars>>
    /\ UNCHANGED <<body, driverVars, doneClosed, ctxDone, bodyCloses, panicked,
                   results, closeVars>>

\* case chunk, ok := <-s.stream with ok: the driver's send completes
RecvChunk ==
    /\ ~panicked /\ rpc = "select" /\ dpc = "send"
    /\ results' = Append(results, Result(chunk, "nil"))
    /\ rpc' = "idle"
    /\ dpc' = "select"
    /\ chunk' = 0
    /\ recvAfterClose' = FALSE
    /\ UNCHANGED <<codecVars, createVars>>
    /\ UNCHANGED <<body, pos, rd, exit, streamClosed, doneClosed, ctxDone,
                   bodyCloses, panicked, closeVars>>

\* the receive from the closed channel without the ok test: a zero chunk
RecvClosedNoOk ==
    /\ ~panicked /\ rpc = "select" /\ streamClosed
    /\ results' = Append(results, Result(0, "nil"))
    /\ rpc' = "idle"
    /\ recvAfterClose' = FALSE
    /\ UNCHANGED <<codecVars, createVars>>
    /\ UNCHANGED <<body, driverVars, doneClosed, ctxDone, bodyCloses, panicked,
                   closeVars>>

\* case chunk, ok := <-s.stream with !ok: the channel is closed
RecvClosed ==
    /\ ~panicked /\ rpc = "select" /\ streamClosed
    /\ results' = Append(results, Result(0, "EOF"))
    /\ rpc' = "idle"
    /\ recvAfterClose' = FALSE
    /\ UNCHANGED <<codecVars, createVars>>
    /\ UNCHANGED <<body, driverVars, doneClosed, ctxDone, bodyCloses, panicked,
                   closeVars>>

\* a Recv whose select has no case for s.done
RecvDoneMissing == FALSE /\ UNCHANGED vars

\* case <-s.done returning the cancellation as an error
RecvDoneCanceled ==
    /\ ~panicked /\ rpc = "select" /\ doneClosed
    /\ results' = Append(results, Result(0, "canceled"))
    /\ rpc' = "idle"
    /\ recvAfterClose' = FALSE
    /\ UNCHANGED <<codecVars, createVars>>
    /\ UNCHANGED <<body, driverVars, doneClosed, ctxDone, bodyCloses, panicked,
                   closeVars>>

\* case <-s.done
RecvDone ==
    /\ ~panicked /\ rpc = "select" /\ doneClosed
    /\ results' = Append(results, Result(0, "EOF"))
    /\ rpc' = "idle"
    /\ recvAfterClose' = FALSE
    /\ UNCHANGED <<codecVars, createVars>>
    /\ UNCHANGED <<body, driverVars, doneClosed, ctxDone, bodyCloses, panicked,
                   closeVars>>

RecvReturn == RecvChunk \/ RecvClosed \/ RecvDone

\* ---------------------------------------------------------------- Close
\* the chunks among the outcomes of Recv, in the order they were returned
Chunks(rs) == SelectSeq(rs, LAMBDA r : r.err = "nil")

\* close(s.done): closing a closed channel panics
CloseDone ==
    /\ ~panicked /\ cpc = "idle" /\ closeCalls < MaxClose
    /\ closeCalls' = closeCalls + 1
    /\ closedEarly' = IF closeCalls = 0 THEN Chunks(results) = <<>> ELSE closedEarly
    /\ IF doneClosed
       THEN panicked' = TRUE /\ UNCHANGED <<doneClosed, cpc>>
       ELSE doneClosed' = TRUE /\ cpc' = "body" /\ UNCHANGED panicked
    /\ UNCHANGED <<codecVars, createVars>>
    /\ UNCHANGED <<body, driverVars, ctxDone, bodyCloses, recvVars, closeReturns>>

\* if s.response != nil { s.response.Body.Close() }
CloseBody ==
    /\ ~panicked /\ cpc = "body"
    /\ bodyCloses' = bodyCloses + 1
    /\ cpc' = "idle"
    /\ closeReturns' = closeReturns + 1
    /\ UNCHANGED <<codecVars, createVars>>
    /\ UNCHANGED <<body, driverVars, doneClosed, ctxDone, panicked, recvVars,
                   closeCalls, closedEarly>>

\* the caller cancels the context passed to CreateChatCompletionStream
CancelCtx ==
    /\ ~panicked /\ ~ctxDone
    /\ ctxDone' = TRUE
    /\ UNCHANGED <<codecVars, createVars>>
    /\ UNCHANGED <<body, driverVars, doneClosed, bodyCloses, panicked,
                   recvVars, closeVars>>

Next ==
    \/ DriverSelectDone \/ DriverSelectCtx \/ DriverSelectDefault
    \/ DriverReadFail \/ DriverReadLine
    \/ DriverDeferBody \/ DriverDeferClose
    \/ RecvCall \/ RecvChunk \/ RecvClosed \/ RecvDone
    \/ CloseDone \/ CloseBody
    \/ CancelCtx

Spec == Init /\ [][Next]_vars

\* The consumer's pending Recv is scheduled; nothing is assumed of the
\* driver, which may stay blocked in a read or in its send for ever.
InitFair == Init /\ Len(body) <= MaxFairLines

SpecRecvFair == InitFair /\ [][Next]_vars /\ WF_vars(RecvReturn)

\* Lines that end in [DONE] without being the terminator frame, and the
\* terminator with no data: prefix; bodies made of these and the other lines
ProcDoneLine == <<": ", "OPENROUTER PROCESSING", " ", "[DONE]", NL>>
JunkDoneLine == <<"data:", " ", "{1}", "[DONE]", NL>>
BareDoneLine == <<"[DONE]", NL>>

ExtLineSet == LineSet \cup {ProcDoneLine, JunkDoneLine, BareDoneLine}

InitLines ==
    /\ CodecIdle
    /\ StreamCreated
    /\ body \in BoundedSeq(ExtLineSet, MaxExtLines)
    /\ pos = 0
    /\ dpc = "select"
    /\ chunk = 0
    /\ rd = NoRead
    /\ exit = "none"
    /\ streamClosed = FALSE
    /\ doneClosed = FALSE
    /\ ctxDone = FALSE
    /\ bodyCloses = 0
    /\ panicked = FALSE
    /\ rpc = "idle"
    /\ cpc = "idle"
    /\ closeCalls = 0
    /\ closeReturns = 0
    /\ recvAfterClose = FALSE
    /\ closedEarly = FALSE
    /\ results = <<>>

SpecLines == InitLines /\ [][Next]_vars

\* The driver goroutine and a Close under way are scheduled, and a read of
\* the body always returns; nothing is assumed of the consumer, which may
\* never call Recv again.
DriverStep ==
    \/ DriverSelectDone \/ DriverSelectCtx \/ DriverSelectDefault
    \/ DriverReadFail \/ DriverReadLine
    \/ DriverDeferBody \/ DriverDeferClose

SpecDriverFair ==
    InitFair /\ [][Next]_vars /\ WF_vars(DriverStep) /\ WF_vars(CloseBody)

\* The driver goroutine is scheduled and its reads return, and the consumer
\* keeps calling Recv (as far as MaxRecv lets it) and its pending Recv is
\* scheduled; Close and cancellation may come or not.
SpecAllFair ==
    /\ InitFair
    /\ [][Next]_vars
    /\ WF_vars(DriverStep)
    /\ WF_vars(RecvCall)
    /\ WF_vars(RecvReturn)

TypeOK ==
    /\ body \in Bodies
    /\ pos \in 0..MaxLines
    /\ dpc \in {"select", "read", "send", "deferBody", "deferClose", "exited"}
    /\ chunk \in 0..2
    /\ bodyCloses \in 0..(MaxClose + 1)
    /\ rpc \in {"idle", "select"}
    /\ cpc \in {"idle", "body"}
    /\ Len(results) <= MaxRecv
    /\ exit \in {"none", "done", "ctx", "read", "terminator", "decode"}

\* ============================================== the text-completion stream
\* CompletionStream and the driver goroutine of CreateCompletionStream,
\* translated from completion.go, acting on the same session state as the
\* chat stream; chunks are CompletionResponse values, numbered as the chat
\* chunks are.

\* completion.go:184  strings.HasSuffix(string(line), "[DONE]\n")
CompletionIsDone(line) == HasSuffix(line, <<"[DONE]", NL>>)

\* completion.go:188  HasPrefix(line, ": OPENROUTER PROCESSING") || line == "\n"
CompletionIsIgnored(line) ==
    HasPrefix(line, <<": ", "OPENROUTER PROCESSING">>) \/ line = <<NL>>

\* completion.go:192  bytes.TrimPrefix(line, []byte("data:"))
CompletionPayload(line) == TrimPrefix(line, <<"data:">>)

\* completion.go:183-199: what the driver does with a line read without error
CompletionProcess(line) ==
    IF CompletionIsDone(line) THEN [pc |-> "deferBody", chunk |-> 0, exit |-> "terminator"]
    ELSE IF CompletionIsIgnored(line) THEN [pc |-> "select", chunk |-> 0, exit |-> "none"]
    ELSE LET u == Unmarshal(CompletionPayload(line))
         IN  IF ~u.ok THEN [pc |-> "deferBody", chunk |-> 0, exit |-> "decode"]
             ELSE [pc |-> "send", chunk |-> u.chunk, exit |-> "none"]

\* completion.go:169  select: case <-done: return
CompletionDriverSelectDone ==
    /\ ~panicked /\ dpc = "select" /\ doneClosed
    /\ dpc' = "deferBody"
    /\ exit' = "done"
    /\ UNCHANGED <<codecVars, createVars>>
    /\ UNCHANGED <<body, pos, chunk, rd, streamClosed, doneClosed, ctxDone,
                   bodyCloses, panicked, recvVars, closeVars>>

\* completion.go:171  select: case <-ctx.Done(): return
CompletionDriverSelectCtx ==
    /\ ~panicked /\ dpc = "select" /\ ctxDone
    /\ dpc' = "deferBody"
    /\ exit' = "ctx"
    /\ UNCHANGED <<codecVars, createVars>>
    /\ UNCHANGED <<body, pos, chunk, rd, streamClosed, doneClosed, ctxDone,
                   bodyCloses, panicked, recvVars, closeVars>>

\* completion.go:174  select: default
CompletionDriverSelectDefault ==
    /\ ~panicked /\ dpc = "select" /\ ~doneClosed /\ ~ctxDone
    /\ dpc' = "read"
    /\ UNCHANGED <<codecVars, createVars>>
    /\ UNCHANGED <<body, pos, chunk, rd, exit, streamClosed, doneClosed, ctxDone,
                   bodyCloses, panicked, recvVars, closeVars>>

\* completion.go:175-182  ReadBytes returned an error: return
CompletionDriverReadFail ==
    /\ ~panicked /\ dpc = "read"
    /\ \E r \in ReadBytes(body, pos, bodyCloses > 0 \/ ctxDone) :
         /\ r.err # "nil"
         /\ rd' = r
    /\ dpc' = "deferBody"
    /\ exit' = "read"
    /\ UNCHANGED <<codecVars, createVars>>
    /\ UNCHANGED <<body, pos, chunk, streamClosed, doneClosed, ctxDone,
                   bodyCloses, panicked, recvVars, closeVars>>

\* completion.go:175-199  ReadBytes returned a line: classify it, decode it
CompletionDriverReadLine ==
    /\ ~panicked /\ dpc = "read"
    /\ \E r \in ReadBytes(body, pos, bodyCloses > 0 \/ ctxDone) :
         /\ r.err = "nil"
         /\ pos' = pos + 1
         /\ dpc' = CompletionProcess(r.line).pc
         /\ chunk' = CompletionProcess(r.line).chunk
         /\ exit' = CompletionProcess(r.line).exit
    /\ UNCHANGED <<codecVars, createVars>>
    /\ UNCHANGED <<body, rd, streamClosed, doneClosed, ctxDone, bodyCloses,
                   panicked, recvVars, closeVars>>

\* completion.go:164  defer resp.Body.Close()
CompletionDriverDeferBody ==
    /\ ~panicked /\ dpc = "deferBody"
    /\ bodyCloses' = bodyCloses + 1
    /\ dpc' = "deferClose"
    /\ UNCHANGED <<codecVars, createVars>>
    /\ UNCHANGED <<body, pos, chunk, rd, exit, streamClosed, doneClosed, ctxDone,
                   panicked, recvVars, closeVars>>

\* completion.go:163  defer close(stream)
CompletionDriverDeferClose ==
    /\ ~panicked /\ dpc = "deferClose"
    /\ streamClosed' = TRUE
    /\ dpc' = "exited"
    /\ UNCHANGED <<codecVars, createVars>>
    /\ UNCHANGED <<body, pos, chunk, rd, exit, doneClosed, ctxDone, bodyCloses,
                   panicked, recvVars, closeVars>>

\* completion.go:212  the consumer calls Recv and reaches the select
CompletionRecvCall ==
    /\ ~panicked /\ rpc = "idle" /\ Len(results) < MaxRecv
    /\ rpc' = "select"
    /\ recvAfterClose' = (closeReturns > 0)
    /\ UNCHANGED <<codecVars, createVars>>
    /\ UNCHANGED <<body, driverVars, doneClosed, ctxDone, bodyCloses, panicked,
                   results, closeVars>>

\* completion.go:214-218  case chunk, ok := <-s.stream with ok
CompletionRecvChunk ==
    /\ ~panicked /\ rpc = "select" /\ dpc = "send"
    /\ results' = Append(results, Result(chunk, "nil"))
    /\ rpc' = "idle"
    /\ dpc' = "select"
    /\ chunk' = 0
    /\ recvAfterClose' = FALSE
    /\ UNCHANGED <<codecVars, createVars>>
    /\ UNCHANGED <<body, pos, rd, exit, streamClosed, doneClosed, ctxDone,
                   bodyCloses, panicked, closeVars>>

\* completion.go:214-216  case chunk, ok := <-s.stream with !ok
CompletionRecvClosed ==
    /\ ~panicked /\ rpc = "select" /\ streamClosed
    /\ results' = Append(results, Result(0, "EOF"))
    /\ rpc' = "idle"
    /\ recvAfterClose' = FALSE
    /\ UNCHANGED <<codecVars, createVars>>
    /\ UNCHANGED <<body, driverVars, doneClosed, ctxDone, bodyCloses, panicked,
                   closeVars>>

\* completion.go:219-220  case <-s.done
CompletionRecvDone ==
    /\ ~panicked /\ rpc = "select" /\ doneClosed
    /\ results' = Append(results, Result(0, "EOF"))
    /\ rpc' = "idle"
    /\ recvAfterClose' = FALSE
    /\ UNCHANGED <<codecVars, createVars>>
    /\ UNCHANGED <<body, driverVars, doneClosed, ctxDone, bodyCloses, panicked,
                   closeVars>>

\* completion.go:226  close(s.done)
CompletionCloseDone ==
    /\ ~panicked /\ cpc = "idle" /\ closeCalls < MaxClose
    /\ closeCalls' = closeCalls + 1
    /\ closedEarly' = IF closeCalls = 0 THEN Chunks(results) = <<>> ELSE closedEarly
    /\ IF doneClosed
       THEN panicked' = TRUE /\ UNCHANGED <<doneClosed, cpc>>
       ELSE doneClosed' = TRUE /\ cpc' = "body" /\ UNCHANGED panicked
    /\ UNCHANGED <<codecVars, createVars>>
    /\ UNCHANGED <<body, driverVars, ctxDone, bodyCloses, recvVars, closeReturns>>

\* completion.go:227-229  if s.response != nil { s.response.Body.Close() }
CompletionCloseBody ==
    /\ ~panicked /\ cpc = "body"
    /\ bodyCloses' = bodyCloses + 1
    /\ cpc' = "idle"
    /\ closeReturns' = closeReturns + 1
    /\ UNCHANGED <<codecVars, createVars>>
    /\ UNCHANGED <<body, driverVars, doneClosed, ctxDone, panicked, recvVars,
                   closeCalls, closedEarly>>

NextCompletion ==
    \/ CompletionDriverSelectDone \/ CompletionDriverSelectCtx
    \/ CompletionDriverSelectDefault
    \/ CompletionDriverReadFail \/ CompletionDriverReadLine
    \/ CompletionDriverDeferBody \/ CompletionDriverDeferClose
    \/ CompletionRecvCall \/ CompletionRecvChunk \/ CompletionRecvClosed
    \/ CompletionRecvDone
    \/ CompletionCloseDone \/ CompletionCloseBody
    \/ CancelCtx

\* the two streams side by side: from the same session state, each may make
\* its step
NextBoth == Next \/ NextCompletion

SpecBoth == InitFair /\ [][NextBoth]_vars

\* ============================================================ Content codec
\* Content.Text values, ChatMessagePart values, Content values.  A nil
\* slice and an empty slice are both the empty sequence: the code only
\* tests len(c.Multi).
Texts == {"", "a", "<"}

ZeroPart == [type |-> "", text |-> ""]

Parts == {[type |-> "text", text |-> "a"], [type |-> "image_url", text |-> ""]}

Contents == [Text : Texts, Multi : BoundedSeq(Parts, MaxParts)]

\* A JSON document in a byte buffer: a string (raw: the bytes between the
\* quotes), an array, null, a number, an object, or bytes that are not JSON
Doc(k, raw, elems) == [k |-> k, raw |-> raw, elems |-> elems]

\* an element of a JSON array: a part object, null or a number
Elem(k, part) == [k |-> k, part |-> part]

Elems == {Elem("obj", p) : p \in Parts} \cup {Elem("null", ZeroPart), Elem("num", ZeroPart)}

RawTexts == {"", "a", "<", "\\u003c"}

Inputs ==
    {Doc("str", r, <<>>) : r \in RawTexts}
    \cup {Doc("arr", "", e) : e \in BoundedSeq(Elems, MaxParts)}
    \cup {Doc(k, "", <<>>) : k \in {"null", "num", "obj", "bad"}}

\* encoding/json writes < as < in a string, and reads both forms
EscapeString(t) == IF t = "<" THEN "\\u003c" ELSE t
UnescapeString(r) == IF r = "\\u003c" THEN "<" ELSE r

\* json.Marshal(c.Text), json.Marshal(c.Multi), json.Marshal(nil)
MarshalString(t) == Doc("str", EscapeString(t), <<>>)
MarshalParts(m) == Doc("arr", "", [i \in 1..Len(m) |-> Elem("obj", m[i])])
MarshalNil == Doc("null", "", <<>>)

\* json.Unmarshal(data, &s) with s a string: null leaves s as it is
UnmarshalString(d) ==
    CASE d.k = "str"  -> [ok |-> TRUE, s |-> UnescapeString(d.raw)]
      [] d.k = "null" -> [ok |-> TRUE, s |-> ""]
      [] OTHER        -> [ok |-> FALSE, s |-> ""]

\* json.Unmarshal(data, &parts) with parts a []ChatMessagePart: a null
\* element is a zero part, an element that is not an object is an error
UnmarshalParts(d) ==
    CASE d.k = "arr" /\ \A i \in 1..Len(d.elems) : d.elems[i].k \in {"obj", "null"}
            -> [ok |-> TRUE, parts |-> [i \in 1..Len(d.elems) |-> d.elems[i].part]]
      [] d.k = "null" -> [ok |-> TRUE, parts |-> <<>>]
      [] OTHER        -> [ok |-> FALSE, parts |-> <<>>]

\* the test of c.Multi is missing from the first branch
MarshalJSONTextFirst(c) ==
    IF c.Text # ""
    THEN [data |-> MarshalString(c.Text), err |-> "nil"]
    ELSE IF Len(c.Multi) > 0
    THEN [data |-> MarshalParts(c.Multi), err |-> "nil"]
    ELSE [data |-> MarshalNil, err |-> "nil"]

\* func (c Content) MarshalJSON() ([]byte, error)
MarshalJSON(c) ==
    IF c.Text # "" /\ Len(c.Multi) = 0
    THEN [data |-> MarshalString(c.Text), err |-> "nil"]
    ELSE IF Len(c.Multi) > 0 /\ c.Text = ""
    THEN [data |-> MarshalParts(c.Multi), err |-> "nil"]
    ELSE [data |-> MarshalNil, err |-> "nil"]

\* the receiver is left as it was when neither decode succeeds
UnmarshalJSONKeep(c, d) ==
    IF UnmarshalString(d).ok /\ UnmarshalString(d).s # ""
    THEN [c |-> [Text |-> UnmarshalString(d).s, Multi |-> <<>>], err |-> "nil"]
    ELSE IF UnmarshalParts(d).ok /\ Len(UnmarshalParts(d).parts) > 0
    THEN [c |-> [Text |-> "", Multi |-> UnmarshalParts(d).parts], err |-> "nil"]
    ELSE [c |-> c, err |-> "nil"]

\* the array of parts is never tried
UnmarshalJSONStringOnly(c, d) ==
    IF UnmarshalString(d).ok /\ UnmarshalString(d).s # ""
    THEN [c |-> [Text |-> UnmarshalString(d).s, Multi |-> <<>>], err |-> "nil"]
    ELSE [c |-> [Text |-> "", Multi |-> <<>>], err |-> "nil"]

\* func (c *Content) UnmarshalJSON(data []byte) error: the receiver after
\* the call and the error returned
UnmarshalJSON(c, d) ==
    IF UnmarshalString(d).ok /\ UnmarshalString(d).s # ""
    THEN [c |-> [Text |-> UnmarshalString(d).s, Multi |-> <<>>], err |-> "nil"]
    ELSE IF UnmarshalParts(d).ok /\ Len(UnmarshalParts(d).parts) > 0
    THEN [c |-> [Text |-> "", Multi |-> UnmarshalParts(d).parts], err |-> "nil"]
    ELSE [c |-> [Text |-> "", Multi |-> <<>>], err |-> "nil"]

\* the caller builds a Content value
ContentSet ==
    /\ \E c \in Contents :
         codec' = [codec EXCEPT !.cv = c, !.cop = "set", !.cerr = "nil", !.cpre = NoSrc]
    /\ UNCHANGED <<streamVars, createVars>>

\* bytes arrive from elsewhere
ContentInput ==
    /\ \E d \in Inputs :
         codec' = [codec EXCEPT !.cdata = d, !.csrc = NoSrc, !.cop = "input",
                                !.cerr = "nil", !.cpre = NoSrc]
    /\ UNCHANGED <<streamVars, createVars>>

\* data, err := cv.MarshalJSON()
ContentMarshal ==
    /\ codec' = [codec EXCEPT !.cdata = MarshalJSON(cv).data, !.cerr = MarshalJSON(cv).err,
                              !.csrc = cv, !.cop = "marshal", !.cpre = NoSrc]
    /\ UNCHANGED <<streamVars, createVars>>

\* err := cv.UnmarshalJSON(cdata)
ContentUnmarshal ==
    /\ cdata # NoDoc
    /\ codec' = [codec EXCEPT !.cv = UnmarshalJSON(cv, cdata).c,
                              !.cerr = UnmarshalJSON(cv, cdata).err,
                              !.cpre = cv, !.cop = "unmarshal"]
    /\ UNCHANGED <<streamVars, createVars>>

InitContent == Init /\ body = <<>>

NextContent == ContentSet \/ ContentInput \/ ContentMarshal \/ ContentUnmarshal

SpecContent == InitContent /\ [][NextContent]_vars

\* ================================================== creating a completion
Apis == {"chat", "completion", "chatStream", "completionStream"}
IsStreamApi(a) == a \in {"chatStream", "completionStream"}

\* status codes a server can answer with
Statuses == {100, 199, 200, 201, 204, 302, 399, 400, 404, 500}

NoRet == [stream |-> "nil", err |-> "nil"]

\* the sentinel each non-streaming method returns for request.Stream
ErrStreamNotSupported(a) ==
    IF a = "chat" THEN "ErrChatCompletionStreamNotSupported"
    ELSE "ErrCompletionStreamNotSupported"

\* if request.Stream { ... return } never taken
StreamRejectedNever(a, s) == FALSE

\* if request.Stream { err = Err...StreamNotSupported; return }
StreamRejected(a, s) == ~IsStreamApi(a) /\ s

isSupportingModel(a) == TRUE

isFailureStatusCode(s) == s < StatusOK \/ s >= StatusBadRequest

\* every status that is not a failure is taken for a stream
IsStatusOKAny(s) == TRUE

\* resp.StatusCode != http.StatusOK, negated
IsStatusOK(s) == s = StatusOK

\* no call has been made
CreateIdle ==
    create = [api |-> "none", reqStream |-> FALSE, kpc |-> "idle", httpCalls |-> 0,
              status |-> 0, respCloses |-> 0, respReads |-> 0, started |-> FALSE,
              ret |-> NoRet]

\* a caller calls one of the four methods; the method's first statements run:
\* the Stream check of the non-streaming ones, request.Stream = true in the
\* streaming ones, then isSupportingModel
CreateCall ==
    /\ kpc \in {"idle", "returned"}
    /\ ~started
    /\ \E a \in Apis, s \in BOOLEAN :
        create' =
            [api |-> a, reqStream |-> (IsStreamApi(a) \/ s),
             kpc |-> IF StreamRejected(a, s) \/ ~isSupportingModel(a)
                     THEN "returned" ELSE "build",
             ret |-> IF StreamRejected(a, s)
                     THEN [stream |-> "nil", err |-> ErrStreamNotSupported(a)]
                     ELSE IF ~isSupportingModel(a)
                     THEN [stream |-> "nil", err |-> "ErrInvalidModel"]
                     ELSE NoRet,
             httpCalls |-> 0, status |-> 0, respCloses |-> 0, respReads |-> 0,
             started |-> FALSE]
    /\ UNCHANGED <<streamVars, codecVars>>

\* req, err := c.newRequest(...)
CreateNewRequest ==
    /\ kpc = "build"
    /\ \E failed \in BOOLEAN :
        IF failed
        THEN create' = [create EXCEPT !.kpc = "returned",
                                      !.ret = [stream |-> "nil", err |-> "build"]]
        ELSE create' = [create EXCEPT !.kpc = "do"]
    /\ UNCHANGED <<streamVars, codecVars>>

\* resp, err := c.config.HTTPClient.Do(req): a transport error
CreateDoFail ==
    /\ kpc = "do"
    /\ create' = [create EXCEPT !.httpCalls = @ + 1, !.kpc = "returned",
                                !.ret = [stream |-> "nil", err |-> "transport"]]
    /\ UNCHANGED <<streamVars, codecVars>>

\* resp, err := c.config.HTTPClient.Do(req): a response
CreateDo ==
    /\ kpc = "do"
    /\ \E st \in Statuses :
         create' = [create EXCEPT !.httpCalls = @ + 1, !.status = st, !.kpc = "status"]
    /\ UNCHANGED <<streamVars, codecVars>>

\* the streaming methods after Do: failure status, other status, or the
\* channels are made, the driver is started and the stream is returned
CreateStreamStatus ==
    /\ kpc = "status"
    /\ IsStreamApi(api)
    /\ IF isFailureStatusCode(status)
       THEN create' = [create EXCEPT !.kpc = "returned", !.respReads = @ + 1,
                                     !.ret = [stream |-> "nil", err |-> "api"]]
       ELSE IF ~IsStatusOK(status)
       THEN create' = [create EXCEPT !.kpc = "returned", !.respCloses = @ + 1,
                           !.ret = [stream |-> "nil", err |-> "unexpected status code"]]
       ELSE create' = [create EXCEPT !.kpc = "returned", !.started = TRUE,
                                     !.ret = [stream |-> "stream", err |-> "nil"]]
    /\ UNCHANGED <<streamVars, codecVars>>

\* sendRequest after Do: handleErrorResp or decodeResponse, then the deferred
\* res.Body.Close()
CreateSendStatus ==
    /\ kpc = "status"
    /\ ~IsStreamApi(api)
    /\ \E decoded \in BOOLEAN :
         create' = [create EXCEPT
                       !.kpc = "returned", !.respReads = @ + 1, !.respCloses = @ + 1,
                       !.ret = [stream |-> "nil",
                                err |-> IF isFailureStatusCode(status) THEN "api"
                                        ELSE IF decoded THEN "nil" ELSE "decode"]]
    /\ UNCHANGED <<streamVars, codecVars>>

InitCreate ==
    /\ CodecIdle
    /\ CreateIdle
    /\ body = <<>>
    /\ pos = 0
    /\ dpc = "none"
    /\ chunk = 0
    /\ rd = NoRead
    /\ exit = "none"
    /\ streamClosed = FALSE
    /\ doneClosed = FALSE
    /\ ctxDone = FALSE
    /\ bodyCloses = 0
    /\ panicked = FALSE
    /\ rpc = "idle"
    /\ cpc = "idle"
    /\ closeCalls = 0
    /\ closeReturns = 0
    /\ recvAfterClose = FALSE
    /\ closedEarly = FALSE
    /\ results = <<>>

NextCreate ==
    \/ CreateCall
    \/ CreateNewRequest
    \/ CreateDoFail
    \/ CreateDo
    \/ CreateStreamStatus
    \/ CreateSendStatus

SpecCreate == InitCreate /\ [][NextCreate]_vars

\* ============================================================== properties
\* the wire format's data frames and the chunk each one carries (0: the
\* payload is not a JSON object of the chunk type)
DataFrames == {DataLine1, DataLine2, BadLine}
IsDataFrame(l) == l \in DataFrames
FrameChunk(l) == CASE l = DataLine1 -> 1 [] l = DataLine2 -> 2 [] OTHER -> 0
WellFormedData == {DataLine1, DataLine2}
IsWellFormedData(l) == l \in WellFormedData
IsComment(l) == Len(l) > 0 /\ l[1] = ": "

\* the chunks of the data frames of a body, in body order
FrameChunks(b) ==
    LET d == SelectSeq(b, IsDataFrame)
    IN  [i \in 1..Len(d) |-> FrameChunk(d[i])]

\* the chunks returned by Recv so far, in order
Received ==
    LET c == Chunks(results)
    IN  [i \in 1..Len(c) |-> c[i].chunk]

IsPrefix(s, t) == Len(s) <= Len(t) /\ SubSeq(t, 1, Len(s)) = s

GotEOF == \E i \in 1..Len(results) : results[i].err = "EOF"

\* the consumer only calls Recv and the context is never cancelled
OnlyRecv == closeCalls = 0 /\ ~ctxDone

\* the i-th Recv returns the i-th chunk of n, and end-of-stream after them
ChunksThenEOF(b, n) ==
    \A i \in 1..Len(results) :
        results[i] = IF i <= n THEN Result(FrameChunk(b[i]), "nil")
                     ELSE Result(0, "EOF")

\* N well-formed data lines followed by a terminator line
IsTerminated(b) ==
    /\ Len(b) >= 1
    /\ b[Len(b)] = DoneLine
    /\ \A i \in 1..(Len(b) - 1) : IsWellFormedData(b[i])

\* C1: for a body of N well-formed data lines and a terminator, with a
\* consumer that only calls Recv, the Recv calls return the N chunks in body
\* order and end-of-stream after them.
C1_ChunksThenEOF ==
    (IsTerminated(body) /\ OnlyRecv) => ChunksThenEOF(body, Len(body) - 1)

C1_Witness ==
    /\ IsTerminated(body) /\ OnlyRecv /\ Len(body) = 3
    /\ body[1] # body[2]
    /\ Len(results) = 3 /\ results[3].err = "EOF"

\* C2: the response body's Close is invoked exactly once over the life of a
\* stream session, whichever path ends the stream.
C2_BodyClosedOnce ==
    /\ bodyCloses <= 1
    /\ (dpc = "exited" /\ cpc = "idle") => bodyCloses = 1

\* C3: Close may be called a second time, or after the driver has finished,
\* without a panic and without a second release of the body.
C3_CloseIdempotent ==
    closeCalls >= 1 => (~panicked /\ (cpc = "idle" => bodyCloses = 1))

\* C4: if Close is called before any chunk has been received, every Recv
\* called after Close returned yields end-of-stream and never a chunk.
C4_EOFAfterEarlyClose ==
    [][(closedEarly /\ recvAfterClose /\ rpc = "select" /\ rpc' = "idle")
         => results'[Len(results')].err = "EOF"]_vars

\* the driver left its loop on a decode failure or on a read failure other
\* than end-of-source
TerminalFailure == exit = "decode" \/ (exit = "read" /\ rd.err = "err")

\* C5: when the driver ends the stream on a terminal failure, the consumer
\* sees that failure once through Recv, as an error that is not
\* end-of-stream, before the final end-of-stream.
C5_FailureSurfaced ==
    (TerminalFailure /\ OnlyRecv /\ GotEOF) =>
        \E i \in 1..Len(results) :
            /\ results[i].err \notin {"nil", "EOF"}
            /\ \A j \in 1..Len(results) : j < i => results[j].err = "nil"

\* N well-formed data lines and no terminator line
IsUnterminated(b) == \A i \in 1..Len(b) : IsWellFormedData(b[i])

\* C6: for a body of N well-formed data lines that reaches end-of-source
\* with no terminator, Recv returns the N chunks in order and end-of-stream
\* after them, and no error.
C6_EndOfSourceIsEOF ==
    (IsUnterminated(body) /\ OnlyRecv /\ rd \in {NoRead, [line |-> <<>>, err |-> "EOF"]})
        => ChunksThenEOF(body, Len(body))

C6_Witness ==
    /\ IsUnterminated(body) /\ OnlyRecv /\ Len(body) = 2
    /\ body[1] # body[2]
    /\ rd = [line |-> <<>>, err |-> "EOF"]
    /\ Len(results) = 3 /\ results[3].err = "EOF"

\* data lines with comment lines between them
IsCommented(b) ==
    /\ \A i \in 1..Len(b) : IsWellFormedData(b[i]) \/ IsComment(b[i])
    /\ \E i \in 1..Len(b) : IsComment(b[i])

\* C7: with comment lines (any line starting with ": ") between well-formed
\* data lines, the chunks delivered are those of the body with the comment
\* lines removed, and no comment line is delivered as a chunk.
C7_CommentsIgnored ==
    (IsCommented(body) /\ OnlyRecv /\ rd.err # "err" /\ GotEOF)
        => Received = FrameChunks(body)

\* C8: the chunks returned by Recv so far are a prefix of the data frames of
\* the body, in body order.
C8_ReceivedIsPrefix == IsPrefix(Received, FrameChunks(body))

C8_Witness ==
    /\ Received = <<1, 2>> /\ FrameChunks(body) = <<1, 2, 0>>
    /\ exit = "decode"

\* C9: once close(s.done) has run, a Recv that is waiting returns without
\* any step of the driver: under fairness of the Recv select alone, every
\* waiting Recv returns (unless the process has ended in a panic).
C9_RecvReturnsAfterClose ==
    (doneClosed /\ rpc = "select") ~> (rpc = "idle" \/ panicked)

C9_Witness ==
    /\ doneClosed /\ dpc = "read" /\ rpc = "idle" /\ ~panicked
    /\ Len(results) > 0 /\ results[Len(results)].err = "EOF"

\* C10: after the context is done, a waiting Recv returns end-of-stream
\* without any step of the driver, as it does after Close.
C10_CancelLikeClose ==
    (ctxDone /\ rpc = "select" /\ ~panicked) => ENABLED RecvReturn

\* ---------------------------------------------------------- Content codec
IsEmptyContent(c) == c.Text = "" /\ c.Multi = <<>>
IsTextOnly(c) == c.Text # "" /\ c.Multi = <<>>
IsPartsOnly(c) == c.Text = "" /\ c.Multi # <<>>

\* C11: MarshalJSON returns no error and one representation: the JSON
\* string of Text when only Text is set, the array of the parts in order
\* when only Multi is set, null when both or neither are set.
C11_MarshalOneRepresentation ==
    cop = "marshal" =>
        /\ cerr = "nil"
        /\ IsTextOnly(csrc) =>
              (cdata.k = "str" /\ UnescapeString(cdata.raw) = csrc.Text)
        /\ IsPartsOnly(csrc) =>
              /\ cdata.k = "arr"
              /\ Len(cdata.elems) = Len(csrc.Multi)
              /\ \A i \in 1..Len(csrc.Multi) : cdata.elems[i] = Elem("obj", csrc.Multi[i])
        /\ (~IsTextOnly(csrc) /\ ~IsPartsOnly(csrc)) => cdata.k = "null"

C11_Witness ==
    /\ cop = "marshal" /\ csrc.Text = "a" /\ Len(csrc.Multi) = 2
    /\ cdata.k = "null"

\* C12: UnmarshalJSON returns no error for any input and leaves the
\* receiver, whatever it held, with Text set and Multi nil (a JSON string),
\* Multi set and Text empty (a JSON array), or both empty.
C12_UnmarshalShapes ==
    cop = "unmarshal" =>
        /\ cerr = "nil"
        /\ \/ cdata.k = "str" /\ IsTextOnly(cv) /\ cv.Text = UnescapeString(cdata.raw)
           \/ cdata.k = "arr" /\ IsPartsOnly(cv) /\ Len(cv.Multi) = Len(cdata.elems)
           \/ IsEmptyContent(cv)

C12_Witness ==
    /\ cop = "unmarshal" /\ cdata.k = "num"
    /\ cpre.Text = "a" /\ Len(cpre.Multi) = 2
    /\ IsEmptyContent(cv)

\* C13: decoding what MarshalJSON produced from a value with exactly one
\* of Text and Multi set gives that text or those parts back; the empty
\* value encodes to null and decodes to the empty value.
C13_RoundTrip ==
    (cop = "unmarshal" /\ csrc # NoSrc) =>
        /\ (IsTextOnly(csrc) \/ IsPartsOnly(csrc)) => cv = csrc
        /\ IsEmptyContent(csrc) => (cdata.k = "null" /\ IsEmptyContent(cv))

C13_Witness ==
    /\ cop = "unmarshal" /\ csrc # NoSrc
    /\ IsPartsOnly(csrc) /\ Len(csrc.Multi) = 2 /\ csrc.Multi[1] # csrc.Multi[2]
    /\ cv = csrc /\ cpre.Text = "<"

\* C14: CreateChatCompletion and CreateCompletion called with request.Stream
\* set return their ErrChatCompletionStreamNotSupported /
\* ErrCompletionStreamNotSupported sentinel, make no HTTP request, start no
\* driver and neither read nor close a response body
C14_StreamNotSupported ==
    (~IsStreamApi(api) /\ api # "none" /\ reqStream) =>
        /\ kpc = "returned"
        /\ ret = [stream |-> "nil", err |-> ErrStreamNotSupported(api)]
        /\ httpCalls = 0
        /\ status = 0
        /\ ~started
        /\ dpc = "none"
        /\ respReads = 0
        /\ respCloses = 0
        /\ bodyCloses = 0

C14_Witness ==
    /\ api = "completion"
    /\ reqStream
    /\ kpc = "returned"
    /\ ret.err = "ErrCompletionStreamNotSupported"

\* C15: CreateChatCompletionStream / CreateCompletionStream return a stream
\* only after one transport call that answered with status 200; on a
\* transport error, a failure status or any other status they return no
\* stream and an error, start no driver, and call the transport at most once
C15_StreamOnlyOn200 ==
    IsStreamApi(api) =>
        /\ httpCalls <= 1
        /\ started => (kpc = "returned" /\ ret.stream # "nil")
        /\ kpc = "returned" =>
            /\ ret.stream # "nil" <=> (httpCalls = 1 /\ status = StatusOK)
            /\ ret.stream # "nil" => (ret.err = "nil" /\ started)
            /\ ret.stream = "nil" => (ret.err # "nil" /\ ~started /\ dpc = "none")

C15_Witness ==
    /\ api = "completionStream"
    /\ kpc = "returned"
    /\ httpCalls = 1
    /\ status = 201
    /\ ret = [stream |-> "nil", err |-> "unexpected status code"]
    /\ ~started

\* C16: cancellation is never reported as an error: once Close() has been
\* called or the context is cancelled, every Recv that has returned gave
\* either a chunk with a nil error or the zero chunk with io.EOF
C16_CancelNotAnError ==
    (doneClosed \/ ctxDone) =>
        \A i \in 1..Len(results) :
            \/ results[i].err = "nil" /\ results[i].chunk \in 1..2
            \/ results[i].err = "EOF" /\ results[i].chunk = 0

C16_Witness ==
    /\ doneClosed
    /\ ~streamClosed
    /\ Len(results) = 2
    /\ results[1] = Result(1, "nil")
    /\ results[2] = Result(0, "EOF")

\* C17: after Close() is called the driver goroutine eventually terminates,
\* having run its deferred cleanup and closed the delivery channel, whatever
\* it was doing: between iterations, in a read, or blocked handing a chunk
\* to a consumer that makes no further Recv call
C17_DriverExitsAfterClose ==
    doneClosed ~> ((dpc = "exited" /\ streamClosed) \/ panicked)

\* the data lines among the first p of body b that decode to a chunk
Decoded(b, p) == Cardinality({i \in 1..p : IsWellFormedData(b[i])})

\* C18: the driver is at most one chunk ahead of the consumer: the lines it
\* has decoded are at most one more than the chunks Recv has returned, and
\* while a decoded chunk waits to be received the last line read is still
\* the line that chunk came from
C18_OneChunkAhead ==
    LET ahead == Decoded(body, pos) - Len(Chunks(results))
    IN  /\ ahead \in {0, 1}
        /\ dpc = "send" =>
            /\ ahead = 1
            /\ pos >= 1
            /\ IsWellFormedData(body[pos])
            /\ FrameChunk(body[pos]) = chunk

C18_Witness ==
    /\ dpc = "send"
    /\ pos = 2
    /\ pos < Len(body)
    /\ Decoded(body, pos) = 2
    /\ Len(Chunks(results)) = 1
    /\ rpc = "idle"

\* C19: once the driver has read a terminator line it reads no more of the
\* body and delivers no further chunk: no line before the last one read is a
\* terminator, and when the last one read is, the driver is leaving, holds
\* no chunk, and what Recv has returned is exactly the chunks of the lines
\* before the terminator
C19_NothingAfterTerminator ==
    /\ \A i \in 1..(pos - 1) : body[i] # DoneLine
    /\ (pos >= 1 /\ body[pos] = DoneLine) =>
        /\ dpc \in {"deferBody", "deferClose", "exited"}
        /\ exit = "terminator"
        /\ chunk = 0
        /\ Received = FrameChunks(SubSeq(body, 1, pos - 1))

C19_Witness ==
    /\ Len(body) = 3
    /\ body[2] = DoneLine
    /\ IsWellFormedData(body[1])
    /\ IsWellFormedData(body[3])
    /\ pos = 2
    /\ dpc = "exited"
    /\ Len(results) = 3
    /\ results[3] = Result(0, "EOF")

\* C20: a decode failure is terminal without resynchronisation: the driver
\* reads no line after a data line that failed to decode, and when the last
\* line read is such a line the driver is leaving, holds no chunk, and Recv
\* has returned exactly the chunks of the data lines before it, so no chunk
\* of a later line is ever delivered
C20_DecodeFailureTerminal ==
    /\ \A i \in 1..(pos - 1) : body[i] # BadLine
    /\ (pos >= 1 /\ body[pos] = BadLine) =>
        /\ dpc \in {"deferBody", "deferClose", "exited"}
        /\ exit = "decode"
        /\ chunk = 0
        /\ Received = FrameChunks(SubSeq(body, 1, pos - 1))

C20_Witness ==
    /\ Len(body) = 3
    /\ body[1] = DataLine1
    /\ body[2] = BadLine
    /\ body[3] = DataLine2
    /\ pos = 2
    /\ streamClosed
    /\ Received = <<1>>
    /\ Len(results) = 3
    /\ results[2] = Result(0, "EOF")

\* the session's lifecycle: 0 Running (the driver selects, reads or hands a
\* chunk over), 1 Draining (the driver is in its deferred calls), 2 Closed
Phase ==
    CASE dpc \in {"select", "read", "send"} -> 0
      [] dpc \in {"deferBody", "deferClose"} -> 1
      [] OTHER -> 2

\* C21: the lifecycle never goes backwards; the delivery channel is closed
\* by the driver's last step and by nothing else, and once it is closed it
\* stays closed and the driver makes no step, so it neither sends on the
\* closed channel nor closes it again
C21_LifecycleMonotone ==
    [][/\ Phase' >= Phase
       /\ (~streamClosed /\ streamClosed') => (dpc = "deferClose" /\ dpc' = "exited")
       /\ (dpc # "exited" /\ dpc' = "exited") => (~streamClosed /\ streamClosed')
       /\ streamClosed => (streamClosed' /\ dpc = "exited" /\ dpc' = "exited")]_vars

C21_Witness ==
    /\ streamClosed
    /\ dpc = "exited"
    /\ closeReturns = 1
    /\ ctxDone
    /\ Phase = 2
    /\ Len(Received) = 1

\* the terminator frame: the payload left when the optional data: prefix
\* and the surrounding whitespace are removed is exactly [DONE]
IsTerminator(l) == TrimSpace(TrimPrefix(l, <<"data:">>)) = <<"[DONE]">>

\* C22: a line ends the stream as the terminator if and only if its payload
\* is exactly [DONE]; a comment or a line with other content that merely
\* ends in [DONE] does not
C22_TerminatorExact ==
    pos >= 1 => (exit = "terminator" <=> IsTerminator(body[pos]))

\* C23: every line that is not empty, a comment or the terminator is decoded
\* as a data frame, the last one included when end-of-source comes with no
\* newline after it: for a body of well-formed data lines followed by a
\* well-formed data line with no newline, Recv returns the chunk of that
\* last line too before end-of-stream
C23_LastLineDelivered ==
    (/\ exit = "read"
     /\ rd = [line |-> TailLine, err |-> "EOF"]
     /\ IsUnterminated(body)
     /\ OnlyRecv
     /\ GotEOF)
        => Received = FrameChunks(body) \o <<ChunkOf(TailLine[3])>>

\* blank lines and : OPENROUTER PROCESSING comments
SkippedLines == {BlankLine, ProcLine}

\* well-formed data lines with blank lines or processing comments among them
IsSkipBody(b) ==
    /\ \A i \in 1..Len(b) : IsWellFormedData(b[i]) \/ b[i] \in SkippedLines
    /\ \E i \in 1..Len(b) : b[i] \in SkippedLines

C25_SameMachine == [][Next <=> NextCompletion]_vars

C25_Witness ==
    /\ dpc = "exited"
    /\ exit = "done"
    /\ bodyCloses = 2
    /\ ctxDone
    /\ Received = <<1>>
    /\ GotEOF

\* C26: if the consumer keeps calling Recv and never calls Close(), then
\* under fair scheduling, the body ending in a terminator, end-of-source or
\* a read error, a Recv eventually returns end-of-stream and the driver
\* terminates: driver and consumer never deadlock on the hand-off channel
C26_NoHandOffDeadlock ==
    <>(closeCalls > 0 \/ (GotEOF /\ dpc = "exited" /\ streamClosed))

C26_Witness ==
    /\ closeCalls = 0
    /\ ~ctxDone
    /\ GotEOF
    /\ dpc = "exited"
    /\ exit = "terminator"
    /\ Received = <<1>>

\* C27: end-of-stream is final: once a Recv has returned io.EOF, every later
\* Recv on the same stream returns io.EOF too and never a chunk, in every
\* interleaving, also when the first io.EOF came from Close() while the
\* driver was holding a decoded chunk
C27_EOFIsFinal ==
    \A i, j \in 1..Len(results) :
        (i < j /\ results[i].err = "EOF") => results[j].err = "EOF"

\* the releases of the body made by the driver (Close() makes the others,
\* one per return)
DriverReleases == bodyCloses - closeReturns

\* C28: on driver exit the body is released before the delivery channel is
\* closed, so whenever the delivery channel is closed (and a Recv can report
\* end-of-stream from it) the driver has already released the body
C28_ReleasedBeforeClosed ==
    /\ streamClosed => DriverReleases = 1
    /\ dpc \in {"select", "read", "send", "deferBody"} => DriverReleases = 0

C28_Witness ==
    /\ streamClosed
    /\ closeCalls = 0
    /\ ~ctxDone
    /\ bodyCloses = 1
    /\ exit = "read"
    /\ Len(results) = 1 /\ results[1].err = "EOF"

\* C29: whenever CreateChatCompletionStream / CreateCompletionStream got a
\* response from the transport but return an error instead of a stream
\* (a failure status, or any other status than 200), the response body has
\* been released when the call returns
C29_FailedCreateReleasesBody ==
    (/\ IsStreamApi(api)
     /\ kpc = "returned"
     /\ ret.stream = "nil"
     /\ ret.err \in {"api", "unexpected status code"})
        => respCloses = 1

====
